---- MODULE Spec2Model ----
(***************************************************************************)
(* A model of the bread-n-butter parser combinator core:                   *)
(*   src/src/source-location.ts  SourceLocation                            *)
(*   src/src/context.ts          Context                                   *)
(*   src/src/action-result.ts    ActionOK, ActionFail, merge, union        *)
(*   src/src/parse-result.ts     ParseOK, ParseFail                        *)
(*   src/src/bread-n-butter.ts   Parser and the parser constructors        *)
(*   src/src/breadnbutter.ts     the API of free functions                 *)
(*                                                                         *)
(* A JavaScript string is a sequence of UTF-16 code units, each unit a     *)
(* one-character TLA+ string.  A JavaScript value is a tagged record (Str, *)
(* Arr).  A Parser object is a record naming the constructor that built it *)
(* and the values its action closure captured; action(parser, context)     *)
(* runs that closure.  A thrown exception is an Error record that every    *)
(* caller hands on unchanged.  Every result additionally carries the       *)
(* history field `calls`: the parser invocations that produced it, which   *)
(* every closure records where it returns (traced).  In the closures,      *)
(* r.isOK() is written r.type = "ActionOK".                                *)
(*                                                                         *)
(* lazy(fn) is the one constructor whose Parser object changes after       *)
(* construction: its closure assigns the object's `action` property.  The  *)
(* `action` properties of the lazy objects form the heap; a context        *)
(* carries the heap its callee starts from, a result the heap its callee   *)
(* left behind.                                                            *)
(***************************************************************************)
EXTENDS Integers, Sequences, FiniteSets, TLC

VARIABLES
    parser,     \* the Parser under test, once constructed
    range,      \* the <<min, max>> handed to repeat or sepBy, if any
    input,      \* the input string of the run
    start,      \* the offset of the context the parser was called on
    pc,         \* "new", "ready", "threw", "parsed", "ran", "tried", "built",
                \* "merging"
    result,     \* what the run returned or threw
    previous,   \* merge: the result known so far (`this`)
    computed,   \* merge: the result just computed (the argument)
    merged,     \* merge: previous.merge(computed)
    merges,     \* merge: the number of merges chained so far
    heap,       \* the `action` property of every lazy Parser object
    regex,      \* the RegExp handed to match, if any
    parses      \* the number of parse calls made on the grammar so far

vars ==
    <<parser, range, input, start, pc, result, previous, computed, merged,
      merges, heap, regex, parses>>

\* Longest input string explored.
MaxLen == 4

\* Largest count handed to repeat and sepBy.
MaxCount == 3

\* Longest input string explored with line breaks and astral characters.
MaxText == 3

\* Most parse calls made on one grammar, and the longest input of these.
MaxParses == 3

MaxReuse == 2

\* Largest offset of the results merged, and the longest chain of merges.
MaxOffset == 2

MaxChain == 2

\* Longest input string handed to the parsers of match.
MaxMatch == 2

\* Deepest nesting of the lists handed to the grammar of nested lists; the
\* arbitrary inputs handed to it are one unit longer at most.
MaxLisp == 2

\* Longest string handed to matchString of the free functions; their inputs
\* are one unit longer at most.
MaxFree == 2

\* Longest input handed to the lists of "a" separated by ",".
MaxList == 5

\* Code units the explored inputs are made of.
Alphabet == {"a", "b"}

\* Code units of the inputs with line breaks and astral characters.
TextAlphabet == {"a", "\n", "HI", "LO"}

\* UTF-16 code of the code units used by the model (String.prototype order).
CharCode(c) ==
    CASE c = "\n" -> 10
      [] c = " " -> 32
      [] c = "$" -> 36
      [] c = "(" -> 40
      [] c = ")" -> 41
      [] c = "+" -> 43
      [] c = "," -> 44
      [] c = "-" -> 45
      [] c = "." -> 46
      [] c = "/" -> 47
      [] c = "<" -> 60
      [] c = ">" -> 62
      [] c = "A" -> 65
      [] c = "E" -> 69
      [] c = "F" -> 70
      [] c = "O" -> 79
      [] c = "[" -> 91
      [] c = "]" -> 93
      [] c = "a" -> 97
      [] c = "b" -> 98
      [] c = "c" -> 99
      [] c = "g" -> 103
      [] c = "i" -> 105
      [] c = "m" -> 109
      [] c = "s" -> 115
      [] c = "u" -> 117
      [] c = "x" -> 120
      [] c = "y" -> 121
      [] c = "z" -> 122
      [] c = "HI" -> 55357
      [] c = "LO" -> 56832
      [] OTHER -> 65535

\* "HI" and "LO" stand for the two code units of one astral code point.
IsHighSurrogate(c) == c = "HI"

IsLowSurrogate(c) == c = "LO"

\* s < t for JavaScript strings (code unit order), the order of Array.sort().
RECURSIVE StringLess(_, _)
StringLess(s, t) ==
    IF t = <<>> THEN FALSE
    ELSE IF s = <<>> THEN TRUE
    ELSE IF CharCode(Head(s)) # CharCode(Head(t))
         THEN CharCode(Head(s)) < CharCode(Head(t))
    ELSE StringLess(Tail(s), Tail(t))

\* input.slice(start, end) for 0 <= start: the end is clamped to the length.
slice(string, from, to) ==
    LET end == IF to > Len(string) THEN Len(string) ELSE to
    IN  IF from >= end THEN <<>> ELSE SubSeq(string, from + 1, end)

\* [...new Set(list)]: the first occurrence of each element, in order.
RECURSIVE SetOrder(_)
SetOrder(list) ==
    IF list = <<>> THEN <<>>
    ELSE LET init == SubSeq(list, 1, Len(list) - 1)
             last == list[Len(list)]
             rest == SetOrder(init)
         IN  IF \E i \in 1..Len(init) : init[i] = last
             THEN rest
             ELSE Append(rest, last)

\* Insertion of one string into a sorted list of strings.
RECURSIVE InsertSorted(_, _)
InsertSorted(list, s) ==
    IF list = <<>> THEN <<s>>
    ELSE IF StringLess(s, Head(list)) THEN <<s>> \o list
    ELSE <<Head(list)>> \o InsertSorted(Tail(list), s)

\* list.sort() on a list of strings.
RECURSIVE sort(_)
sort(list) ==
    IF list = <<>> THEN <<>>
    ELSE InsertSorted(sort(SubSeq(list, 1, Len(list) - 1)), list[Len(list)])

\* The elements of a list, as a set.
Elems(list) == {list[i] : i \in 1..Len(list)}

(***************************************************************************)
(* JavaScript values                                                       *)
(***************************************************************************)
Str(chars) == [t |-> "string", chars |-> chars]

Arr(items) == [t |-> "array", items |-> items]

(***************************************************************************)
(* The lazy Parser objects of the program, each named by its callback, and *)
(* the function values an `action` property can hold: the closure that     *)
(* lazy(fn) built, or the action of a Parser built by another constructor. *)
(***************************************************************************)
Callbacks == {"letter", "alias", "nested", "expr"}

lazyClosure(fn) == [code |-> "lazy", fn |-> fn]

actionOf(this) == [code |-> "action", parser |-> this]

\* The heap right after the grammar is built: no callback has been called.
Unresolved ==
    [action |-> [fn \in Callbacks |-> lazyClosure(fn)],
     called |-> [fn \in Callbacks |-> 0]]

(***************************************************************************)
(* source-location.ts                                                      *)
(***************************************************************************)
SourceLocation(index, line, column) ==
    [index |-> index, line |-> line, column |-> column]

\* The length of the first code point of a non-empty chunk (ch.length).
FirstLength(chunk) ==
    IF Len(chunk) >= 2 /\ IsHighSurrogate(chunk[1]) /\ IsLowSurrogate(chunk[2])
    THEN 2
    ELSE 1

RECURSIVE add(_, _)
add(this, chunk) ==
    IF chunk = <<>> THEN SourceLocation(this.index, this.line, this.column)
    ELSE LET n == FirstLength(chunk)
             next == IF n = 1 /\ chunk[1] = "\n"
                     THEN SourceLocation(this.index + n, this.line + 1, 1)
                     ELSE SourceLocation(this.index + n, this.line, this.column + 1)
         IN  add(next, SubSeq(chunk, n + 1, Len(chunk)))

(***************************************************************************)
(* action-result.ts                                                        *)
(***************************************************************************)
ActionOK(location, value, furthest, expected) ==
    [type |-> "ActionOK", location |-> location, value |-> value,
     furthest |-> furthest, expected |-> expected, calls |-> <<>>,
     heap |-> Unresolved]

ActionFail(furthest, expected) ==
    [type |-> "ActionFail", furthest |-> furthest, expected |-> expected,
     calls |-> <<>>, heap |-> Unresolved]

\* A thrown Error: it is no ActionResult, and unwinds every caller.
Error(message) ==
    [type |-> "Error", message |-> message, calls |-> <<>>, heap |-> Unresolved]

isOK(r) == r.type = "ActionOK"

isError(r) == r.type = "Error"

union(a, b) == sort(SetOrder(a \o b))

\* Mutant: a tie is decided for the new result, without the union.
mergeTieKeepsNew(a, b) ==
    IF a.furthest.index >= b.furthest.index THEN a
    ELSE IF isOK(a)
         THEN ActionOK(a.location, a.value, b.furthest, b.expected)
         ELSE ActionFail(b.furthest, b.expected)

\* Mutant: the comparison of the offsets is inverted.
mergeNearest(a, b) ==
    IF a.furthest.index < b.furthest.index THEN a
    ELSE LET expected == IF a.furthest.index = b.furthest.index
                         THEN union(a.expected, b.expected)
                         ELSE b.expected
         IN  IF isOK(a)
             THEN ActionOK(a.location, a.value, b.furthest, expected)
             ELSE ActionFail(b.furthest, expected)

merge(a, b) ==
    IF a.furthest.index > b.furthest.index THEN a
    ELSE LET expected == IF a.furthest.index = b.furthest.index
                         THEN union(a.expected, b.expected)
                         ELSE b.expected
         IN  IF isOK(a)
             THEN ActionOK(a.location, a.value, b.furthest, expected)
             ELSE ActionFail(b.furthest, expected)

\* A result without its history and heap fields.
Core(r) == [f \in (DOMAIN r) \ {"calls", "heap"} |-> r[f]]

\* this.merge(b) of ActionOK and ActionFail.  The argument b is evaluated
\* first: when its evaluation threw, merge is never called.  The history of
\* the outcome is the history of `this` followed by that of b, and its heap
\* the one b left behind.
ActionResult_merge(this, b) ==
    IF b.type = "Error"
    THEN [b EXCEPT !.calls = this.calls \o b.calls]
    ELSE [merge(b, this) EXCEPT !.calls = this.calls \o b.calls, !.heap = b.heap]

(***************************************************************************)
(* context.ts                                                              *)
(***************************************************************************)
Context(string, location) ==
    [input |-> string, location |-> location, heap |-> Unresolved]

\* The context of a caller that goes on after the call that returned r.
resume(this, r) == [this EXCEPT !.heap = r.heap]

withLocation(this, location) ==
    [Context(this.input, location) EXCEPT !.heap = this.heap]

\* Mutant: the chunk is cut from the start of the input.
moveFromStart(this, index) ==
    IF index = this.location.index
    THEN add(this.location, slice(this.input, 0, index))
    ELSE add(this.location, slice(this.input, this.location.index, index))

move(this, index) ==
    IF index = this.location.index THEN this.location
    ELSE add(this.location, slice(this.input, this.location.index, index))

\* The object that move returns: the SourceLocation the context holds, or
\* the one that add constructs.
moveReturns(this, index) ==
    IF index = this.location.index THEN "this.location"
    ELSE "new SourceLocation"

context_ok(this, index, value) ==
    [ActionOK(move(this, index), value, SourceLocation(-1, -1, -1), <<>>)
        EXCEPT !.heap = this.heap]

context_fail(this, index, expected) ==
    [ActionFail(move(this, index), expected) EXCEPT !.heap = this.heap]

(***************************************************************************)
(* parse-result.ts                                                         *)
(***************************************************************************)
ParseOK(value) ==
    [type |-> "ParseOK", value |-> value, calls |-> <<>>, heap |-> Unresolved]

ParseFail(location, expected) ==
    [type |-> "ParseFail", location |-> location, expected |-> expected,
     calls |-> <<>>, heap |-> Unresolved]

(***************************************************************************)
(* bread-n-butter.ts: the Parser objects.  Each constructor and method     *)
(* returns `new Parser(closure)`: the record holds what the closure        *)
(* captured.  A callback is a record too: `fn` names its code and the      *)
(* other fields are its captured variables.                                *)
(***************************************************************************)
str(string) == [kind |-> "str", string |-> string]

ok(value) == [kind |-> "ok", value |-> value]

fail(expected) == [kind |-> "fail", expected |-> expected]

eof == [kind |-> "eof"]

location == [kind |-> "location"]

lazy(fn) == [kind |-> "lazy", fn |-> fn]

\* A RegExp object: its source and its flags, both strings.
RegExp(source, flags) == [source |-> source, flags |-> flags]

OnlyImsu == "only the regexp flags 'imsu' are supported"

\* Mutant: every regexp with a flag other than i is refused.
matchOnlyIgnoreCase(regexp) ==
    IF regexp.flags # <<"i">> /\ regexp.flags # <<>>
    THEN Error(OnlyImsu)
    ELSE [kind |-> "match", regexp |-> regexp]

\* for (const flag of regexp.flags): i, s, m, u go on, any other one throws.
match(regexp) ==
    IF \E k \in 1..Len(regexp.flags) :
            regexp.flags[k] \notin {"i", "s", "m", "u"}
    THEN Error(OnlyImsu)
    ELSE [kind |-> "match", regexp |-> regexp]

and(this, parserB) == [kind |-> "and", this |-> this, parserB |-> parserB]

or(this, parserB) == [kind |-> "or", this |-> this, parserB |-> parserB]

chain(this, fn) == [kind |-> "chain", this |-> this, fn |-> fn]

\* (a) => ok(fn(a))
map(this, fn) == chain(this, [fn |-> "map", f |-> fn])

desc(this, name) == [kind |-> "desc", this |-> this, name |-> name]

\* Mutant: the parser comes first and `before` second.
wrapSwapped(this, before, after) ==
    chain(and(this, before), [fn |-> "wrap", after |-> after])

\* ([, value]) => after.map(() => value)
wrap(this, before, after) ==
    chain(and(before, this), [fn |-> "wrap", after |-> after])

trim(this, beforeAndAfter) == wrap(this, beforeAndAfter, beforeAndAfter)

\* ([start, value]) => location.map((end) => ({type, name, value, start, end}))
node(this, name) == chain(and(location, this), [fn |-> "node", name |-> name])

many1(this) == [kind |-> "many1", this |-> this]

many0(this) == or(many1(this), ok(Arr(<<>>)))

\* (first) => separator.and(this).map(second).many0().map(prepend first)
sepBy1(this, separator) ==
    chain(this, [fn |-> "sepBy1", this |-> this, separator |-> separator])

\* Mutant: the repetition needs one item.
sepBy0NeedsOne(this, separator) == sepBy1(this, separator)

sepBy0(this, separator) == or(sepBy1(this, separator), ok(Arr(<<>>)))

(***************************************************************************)
(* repeat and sepBy (release 0.5.0).  A JavaScript number x with at most    *)
(* one decimal digit is held as the integer 10 * x; Infinity is held as a  *)
(* count no repetition inside an explored input can reach.                 *)
(***************************************************************************)
Number(n) == 10 * n

isInteger(x) == x % 10 = 0

Infinity == Number(MaxLen + MaxCount + 1)

BadRange == "bad range"

\* Mutant: the bounds are not checked to be integers.
isRangeValidAnyNumber(min, max) == 0 <= min /\ min <= max

isRangeValid(min, max) ==
    isInteger(min) /\ isInteger(max) /\ 0 <= min /\ min <= max

repeat(this, min, max) ==
    IF ~isRangeValid(min, max) THEN Error(BadRange)
    ELSE [kind |-> "repeat", this |-> this, min |-> min, max |-> max]

\* (first) => separator.and(this).map(second).repeat(min - 1, max - 1)
\*              .map(prepend first)
sepBy(this, separator, min, max) ==
    LET more(least) ==
            chain(this, [fn |-> "sepBy", this |-> this, separator |-> separator,
                         min |-> least - Number(1), max |-> max - Number(1)])
    IN  IF ~isRangeValid(min, max) THEN Error(BadRange)
        ELSE IF max = 0 THEN ok(Arr(<<>>))
        ELSE IF min = 0 THEN or(more(Number(1)), ok(Arr(<<>>)))
        ELSE more(min)

\* Mutant: the pair of separator and item yields the separator.
applyKeepsSeparator(fn, value) ==
    CASE fn.fn = "second" -> value.items[1]
      [] fn.fn = "first" -> value.items[1]
      [] fn.fn = "const" -> fn.value
      [] fn.fn = "prepend" -> Arr(<<fn.first>> \o value.items)
      [] fn.fn = "list" -> Arr(<<value>>)
      [] fn.fn = "ParseNode" ->
            [t |-> "ParseNode", type |-> "ParseNode", name |-> fn.name,
             value |-> fn.value, start |-> fn.start, end |-> value]

\* The callbacks handed to map: fn(value).
apply(fn, value) ==
    CASE fn.fn = "second" -> value.items[2]               \* ([, value]) => value
      [] fn.fn = "first" -> value.items[1]                \* ([first]) => first
      [] fn.fn = "const" -> fn.value                      \* () => value
      [] fn.fn = "prepend" -> Arr(<<fn.first>> \o value.items)
                                                          \* (rest) => [first, ...rest]
      [] fn.fn = "list" -> Arr(<<value>>)                 \* (x) => [x]
      [] fn.fn = "ParseNode" ->                           \* (end) => ({...})
            [t |-> "ParseNode", type |-> "ParseNode", name |-> fn.name,
             value |-> fn.value, start |-> fn.start, end |-> value]

\* The callbacks handed to chain: fn(value), a Parser.
call(fn, value) ==
    CASE fn.fn = "map" -> ok(apply(fn.f, value))
      [] fn.fn = "wrap" ->
            map(fn.after, [fn |-> "const", value |-> value.items[2]])
      [] fn.fn = "sepBy1" ->
            map(many0(map(and(fn.separator, fn.this), [fn |-> "second"])),
                [fn |-> "prepend", first |-> value])
      [] fn.fn = "sepBy" ->
            map(repeat(map(and(fn.separator, fn.this), [fn |-> "second"]),
                       fn.min, fn.max),
                [fn |-> "prepend", first |-> value])
      [] fn.fn = "again" -> str(value.chars)              \* (x) => str(x)
      [] fn.fn = "node" ->
            map(location, [fn |-> "ParseNode", name |-> fn.name,
                           start |-> value.items[1], value |-> value.items[2]])

\* The callbacks handed to lazy: fn(), a Parser.
thunk(fn) ==
    CASE fn = "letter" -> str(<<"a">>)                    \* () => str("a")
      [] fn = "alias" -> lazy("letter")                   \* () => letter
      [] fn = "nested" ->                                 \* () => a.and(nested).or(b)
            or(and(str(<<"a">>), lazy("nested")), str(<<"b">>))
      [] fn = "expr" ->                                   \* () => item.or(list)
            or(str(<<"x">>),
               wrap(sepBy0(lazy("expr"), str(<<" ">>)), str(<<"(">>), str(<<")">>)))

(***************************************************************************)
(* bread-n-butter.ts: the parsing actions                                  *)
(***************************************************************************)
RECURSIVE action(_, _)

RECURSIVE invoke(_, _)

\* One invocation, as the history records it.
Call(this, context, r) ==
    [parser |-> this, index |-> context.location.index, depth |-> 0,
     heap |-> context.heap, result |-> Core(r)]

\* The history of an invocation, seen from its caller.
Nested(calls) == [i \in 1..Len(calls) |-> [calls[i] EXCEPT !.depth = @ + 1]]

\* The result r that the action of `this` returns, or the error it throws,
\* with the call at the head of its history.
traced(this, context, r) ==
    [r EXCEPT !.calls = <<Call(this, context, r)>> \o Nested(r.calls)]

\* return a.merge(b), at the end of the action of `this`.  The argument b
\* is evaluated before merge is called.
tracedMerge(this, context, a, b) ==
    CASE b.type \in {"ActionOK", "ActionFail", "Error"} ->
            traced(this, context, ActionResult_merge(a, b))

\* The result r of a call of `this` that ran the closure of another Parser:
\* the history names the Parser that was called.
tracedAs(this, context, r) ==
    [r EXCEPT !.calls = <<Call(this, context, r)>> \o Tail(r.calls)]

\* this.action, read when the heap is `objects`.
property(this, objects) ==
    IF this.kind = "lazy" THEN objects.action[this.fn] ELSE actionOf(this)

\* Mutant: the closure resolves the parser but returns nothing, and the
\* caller's use of the missing result throws.
lazyNoReturn(this, context) ==
    LET made == thunk(this.fn)
        resolved ==
            [action |-> [context.heap.action EXCEPT
                            ![this.fn] = property(made, context.heap)],
             called |-> [context.heap.called EXCEPT ![this.fn] = @ + 1]]
    IN  traced(this, context,
               [Error("result is undefined") EXCEPT !.heap = resolved])

\* The closure of lazy(fn), `this` being the Parser that lazy returned:
\* parser.action = fn().action; return parser.action(context);
lazyAction(this, context) ==
    LET made == thunk(this.fn)
        resolved ==
            [action |-> [context.heap.action EXCEPT
                            ![this.fn] = property(made, context.heap)],
             called |-> [context.heap.called EXCEPT ![this.fn] = @ + 1]]
    IN  invoke(resolved.action[this.fn], [context EXCEPT !.heap = resolved])

\* Mutant: what is left of the input is compared with the start of the
\* string, so that an input that ends inside the string matches.
strPrefix(this, context) ==
    LET begin == context.location.index
        end == begin + Len(this.string)
        chunk == slice(context.input, begin, end)
    IN  IF chunk = SubSeq(this.string, 1, Len(chunk))
        THEN traced(this, context, context_ok(context, end, Str(this.string)))
        ELSE traced(this, context, context_fail(context, begin, <<this.string>>))

strAction(this, context) ==
    LET begin == context.location.index
        end == begin + Len(this.string)
    IN  IF slice(context.input, begin, end) = this.string
        THEN traced(this, context, context_ok(context, end, Str(this.string)))
        ELSE traced(this, context, context_fail(context, begin, <<this.string>>))

okAction(this, context) ==
    traced(this, context, context_ok(context, context.location.index, this.value))

failAction(this, context) ==
    traced(this, context,
           context_fail(context, context.location.index, this.expected))

EOF == <<"<", "E", "O", "F", ">">>

\* Mutant: eof succeeds everywhere.
eofAnywhere(this, context) ==
    traced(this, context, context_ok(context, context.location.index, Str(EOF)))

eofAction(this, context) ==
    IF context.location.index < Len(context.input)
    THEN traced(this, context,
                context_fail(context, context.location.index, <<EOF>>))
    ELSE traced(this, context,
                context_ok(context, context.location.index, Str(EOF)))

\* The regular expressions of the program, by their source.
Letters == <<"[", "a", "-", "z", "]", "+">>

AnyChar == <<".">>

LineEnd == <<"a", "$">>

IsLetter(c, flags) ==
    \/ CharCode(c) \in 97..122
    \/ "i" \in Elems(flags) /\ CharCode(c) \in 65..90

\* The units the atom of the expression consumes at offset i of the string,
\* -1 when it does not match there.
atomLength(source, flags, string, i) ==
    IF i >= Len(string) THEN -1
    ELSE CASE source = Letters ->
                IF IsLetter(string[i + 1], flags) THEN 1 ELSE -1
           [] source = AnyChar ->
                IF string[i + 1] = "\n" /\ "s" \notin Elems(flags) THEN -1
                ELSE IF "u" \in Elems(flags)
                     THEN FirstLength(SubSeq(string, i + 1, Len(string)))
                     ELSE 1

\* The units a greedy run of the atom consumes from offset i.
RECURSIVE runLength(_, _, _, _)
runLength(source, flags, string, i) ==
    LET n == atomLength(source, flags, string, i)
    IN  IF n < 0 THEN 0 ELSE n + runLength(source, flags, string, i + n)

\* string.match(new RegExp(source, flags)) with lastIndex = i and the sticky
\* flag: the length of match[0], -1 for null.
stickyMatch(source, flags, string, i) ==
    IF source = AnyChar THEN atomLength(source, flags, string, i)
    ELSE IF source = LineEnd
    THEN IF /\ i < Len(string)
            /\ \/ string[i + 1] = "a"
               \/ "i" \in Elems(flags) /\ string[i + 1] = "A"
            /\ \/ i + 1 = Len(string)
               \/ "m" \in Elems(flags) /\ string[i + 2] = "\n"
         THEN 1
         ELSE -1
    ELSE LET n == runLength(source, flags, string, i)
         IN  IF n = 0 THEN -1 ELSE n

\* The flags of the RegExp the closure of match builds:
\* regexp.ignoreCase ? "iy" : "y"
stickyFlags(regexp) ==
    IF "i" \in Elems(regexp.flags) THEN <<"i", "y">> ELSE <<"y">>

\* String(regexp)
String(regexp) == <<"/">> \o regexp.source \o <<"/">> \o regexp.flags

matchAction(this, context) ==
    LET flags == stickyFlags(this.regexp)
        begin == context.location.index
        length == stickyMatch(this.regexp.source, flags, context.input, begin)
    IN  IF length >= 0
        THEN traced(this, context,
                    context_ok(context, begin + length,
                               Str(slice(context.input, begin, begin + length))))
        ELSE traced(this, context,
                    context_fail(context, begin, <<String(this.regexp)>>))

locationAction(this, context) ==
    traced(this, context,
           context_ok(context, context.location.index,
                      [t |-> "SourceLocation", location |-> context.location]))

\* Mutant: the second parser starts where the first one started.
andInPlace(this, context) ==
    LET a == action(this.this, context)
    IN  IF a.type # "ActionOK" THEN traced(this, context, a)
        ELSE LET b == ActionResult_merge(a,
                        action(this.parserB, resume(context, a)))
             IN  IF b.type = "ActionOK"
                 THEN traced(this, context,
                        ActionResult_merge(b,
                          context_ok(resume(context, b), b.location.index,
                                     Arr(<<a.value, b.value>>))))
                 ELSE traced(this, context, b)

andAction(this, context) ==
    LET a == action(this.this, context)
    IN  IF a.type # "ActionOK" THEN traced(this, context, a)
        ELSE LET b == ActionResult_merge(a,
                        action(this.parserB,
                               withLocation(resume(context, a), a.location)))
             IN  IF b.type = "ActionOK"
                 THEN traced(this, context,
                        ActionResult_merge(b,
                          context_ok(resume(context, b), b.location.index,
                                     Arr(<<a.value, b.value>>))))
                 ELSE traced(this, context, b)

\* Mutant: the failure of the first alternative is dropped, not merged.
orForgets(this, context) ==
    LET a == action(this.this, context)
        b == action(this.parserB, resume(context, a))
    IN  IF a.type # "ActionFail" THEN traced(this, context, a)
        ELSE traced(this, context, [b EXCEPT !.calls = a.calls \o b.calls])

\* Mutant: no backtracking, the second alternative starts where the first
\* one failed.
orNoBacktrack(this, context) ==
    LET a == action(this.this, context)
    IN  IF a.type # "ActionFail" THEN traced(this, context, a)
        ELSE tracedMerge(this, context, a,
                action(this.parserB,
                       withLocation(resume(context, a), a.furthest)))

orAction(this, context) ==
    LET a == action(this.this, context)
    IN  IF a.type # "ActionFail" THEN traced(this, context, a)
        ELSE tracedMerge(this, context, a,
                action(this.parserB, resume(context, a)))

\* Mutant: the parser the callback returns starts where the first one
\* started.
chainInPlace(this, context) ==
    LET a == action(this.this, context)
    IN  IF a.type # "ActionOK" THEN traced(this, context, a)
        ELSE tracedMerge(this, context, a,
                action(call(this.fn, a.value), resume(context, a)))

chainAction(this, context) ==
    LET a == action(this.this, context)
    IN  IF a.type # "ActionOK" THEN traced(this, context, a)
        ELSE tracedMerge(this, context, a,
                action(call(this.fn, a.value),
                       withLocation(resume(context, a), a.location)))

\* Mutant: the supplied name is added to the expectations of the failure.
descAdds(this, context) ==
    LET r == action(this.this, context)
    IN  IF r.type # "ActionFail" THEN traced(this, context, r)
        ELSE traced(this, context,
                [ActionFail(r.furthest, union(r.expected, <<this.name>>))
                    EXCEPT !.calls = r.calls, !.heap = r.heap])

descAction(this, context) ==
    LET r == action(this.this, context)
    IN  IF r.type # "ActionFail" THEN traced(this, context, r)
        ELSE traced(this, context,
                [ActionFail(r.furthest, <<this.name>>)
                    EXCEPT !.calls = r.calls, !.heap = r.heap])

InfiniteLoop == "infinite loop detected"

\* Mutant: a zero-length match ends the loop with the items collected.
RECURSIVE many1LoopSilent(_, _, _, _)
many1LoopSilent(this, context, items, r) ==
    IF r.type = "ActionOK"
    THEN IF context.location.index = r.location.index
         THEN ActionResult_merge(r,
                 context_ok(resume(context, r), context.location.index, Arr(items)))
         ELSE LET moved == withLocation(resume(context, r), r.location)
              IN  many1LoopSilent(this, moved, Append(items, r.value),
                            ActionResult_merge(r, action(this.this, moved)))
    ELSE IF r.type = "Error" THEN r
    ELSE ActionResult_merge(r,
            context_ok(resume(context, r), context.location.index, Arr(items)))

\* Mutant: the failure that ends the loop is dropped, not merged into the
\* success.
RECURSIVE many1LoopForgets(_, _, _, _)
many1LoopForgets(this, context, items, r) ==
    IF r.type = "ActionOK"
    THEN IF context.location.index = r.location.index
         THEN [Error(InfiniteLoop) EXCEPT !.calls = r.calls, !.heap = r.heap]
         ELSE LET moved == withLocation(resume(context, r), r.location)
              IN  many1LoopForgets(this, moved, Append(items, r.value),
                            ActionResult_merge(r, action(this.this, moved)))
    ELSE IF r.type = "Error" THEN r
    ELSE [context_ok(resume(context, r), context.location.index, Arr(items))
            EXCEPT !.calls = r.calls]

\* Mutant: the loop ends where its last attempt failed, not where that
\* attempt started.
RECURSIVE many1LoopConsumes(_, _, _, _)
many1LoopConsumes(this, context, items, r) ==
    IF r.type = "ActionOK"
    THEN IF context.location.index = r.location.index
         THEN [Error(InfiniteLoop) EXCEPT !.calls = r.calls, !.heap = r.heap]
         ELSE LET moved == withLocation(resume(context, r), r.location)
              IN  many1LoopConsumes(this, moved, Append(items, r.value),
                            ActionResult_merge(r, action(this.this, moved)))
    ELSE IF r.type = "Error" THEN r
    ELSE ActionResult_merge(r,
            context_ok(resume(context, r), r.furthest.index, Arr(items)))

\* Mutant: every iteration calls the action twice, once for the test of the
\* loop and once for the merge.
RECURSIVE many1LoopTwice(_, _, _, _)
many1LoopTwice(this, context, items, r) ==
    IF r.type = "ActionOK"
    THEN IF context.location.index = r.location.index
         THEN [Error(InfiniteLoop) EXCEPT !.calls = r.calls, !.heap = r.heap]
         ELSE LET moved == withLocation(resume(context, r), r.location)
                  again == ActionResult_merge(r, action(this.this, moved))
              IN  many1LoopTwice(this, moved, Append(items, r.value),
                        [again EXCEPT !.calls = @ \o action(this.this, moved).calls])
    ELSE IF r.type = "Error" THEN r
    ELSE ActionResult_merge(r,
            context_ok(resume(context, r), context.location.index, Arr(items)))

\* The while loop of many1: `result` is the outcome of the latest invocation.
RECURSIVE many1Loop(_, _, _, _)
many1Loop(this, context, items, r) ==
    IF r.type = "ActionOK"
    THEN IF context.location.index = r.location.index
         THEN [Error(InfiniteLoop) EXCEPT !.calls = r.calls, !.heap = r.heap]
         ELSE LET moved == withLocation(resume(context, r), r.location)
              IN  many1Loop(this, moved, Append(items, r.value),
                            ActionResult_merge(r, action(this.this, moved)))
    ELSE IF r.type = "Error" THEN r
    ELSE ActionResult_merge(r,
            context_ok(resume(context, r), context.location.index, Arr(items)))

many1Action(this, context) ==
    traced(this, context,
           many1Loop(this, context, <<>>, action(this.this, context)))

\* Mutant: the loop takes one match more than max.
RECURSIVE repeatLoopOneMore(_, _, _, _)
repeatLoopOneMore(this, context, items, r) ==
    IF r.type = "ActionOK"
    THEN IF context.location.index = r.location.index
         THEN [Error(InfiniteLoop) EXCEPT !.calls = r.calls, !.heap = r.heap]
         ELSE LET moved == withLocation(resume(context, r), r.location)
                  collected == Append(items, r.value)
              IN  IF Number(Len(collected)) > this.max
                  THEN ActionResult_merge(r,
                          context_ok(moved, moved.location.index, Arr(collected)))
                  ELSE repeatLoopOneMore(this, moved, collected,
                          ActionResult_merge(r, action(this.this, moved)))
    ELSE IF r.type = "Error" THEN r
    ELSE IF Number(Len(items)) < this.min THEN r
    ELSE ActionResult_merge(r,
            context_ok(resume(context, r), context.location.index, Arr(items)))

\* The loop of repeat: as many1, but it stops once max items are collected
\* and a failure after fewer than min items is the outcome.
RECURSIVE repeatLoop(_, _, _, _)
repeatLoop(this, context, items, r) ==
    IF r.type = "ActionOK"
    THEN IF context.location.index = r.location.index
         THEN [Error(InfiniteLoop) EXCEPT !.calls = r.calls, !.heap = r.heap]
         ELSE LET moved == withLocation(resume(context, r), r.location)
                  collected == Append(items, r.value)
              IN  IF Number(Len(collected)) >= this.max
                  THEN ActionResult_merge(r,
                          context_ok(moved, moved.location.index, Arr(collected)))
                  ELSE repeatLoop(this, moved, collected,
                          ActionResult_merge(r, action(this.this, moved)))
    ELSE IF r.type = "Error" THEN r
    ELSE IF Number(Len(items)) < this.min THEN r
    ELSE ActionResult_merge(r,
            context_ok(resume(context, r), context.location.index, Arr(items)))

repeatAction(this, context) ==
    IF this.max = 0
    THEN traced(this, context,
                context_ok(context, context.location.index, Arr(<<>>)))
    ELSE traced(this, context,
                repeatLoop(this, context, <<>>, action(this.this, context)))

\* f(context), for a function value f: the closure of a lazy Parser, or the
\* closure another constructor handed to new Parser.
invoke(f, context) ==
    IF f.code = "lazy" THEN lazyAction(lazy(f.fn), context)
    ELSE action(f.parser, context)

\* parser.action(context)
action(this, context) ==
    CASE this.kind = "lazy" ->
            tracedAs(this, context, invoke(property(this, context.heap), context))
      [] this.kind = "str" -> strAction(this, context)
      [] this.kind = "ok" -> okAction(this, context)
      [] this.kind = "fail" -> failAction(this, context)
      [] this.kind = "eof" -> eofAction(this, context)
      [] this.kind = "location" -> locationAction(this, context)
      [] this.kind = "match" -> matchAction(this, context)
      [] this.kind = "and" -> andAction(this, context)
      [] this.kind = "or" -> orAction(this, context)
      [] this.kind = "chain" -> chainAction(this, context)
      [] this.kind = "desc" -> descAction(this, context)
      [] this.kind = "many1" -> many1Action(this, context)
      [] this.kind = "repeat" -> repeatAction(this, context)

\* Mutant: a failure of the parser is thrown, not returned.
outcomeThrows(r) ==
    IF isOK(r)
    THEN [ParseOK(r.value.items[1]) EXCEPT !.calls = r.calls, !.heap = r.heap]
    ELSE IF isError(r) THEN r
    ELSE [Error("parse error") EXCEPT !.calls = r.calls, !.heap = r.heap]

\* The result of parse, from the result r of the parser followed by eof.
outcome(r) ==
    IF isOK(r)
    THEN [ParseOK(r.value.items[1]) EXCEPT !.calls = r.calls, !.heap = r.heap]
    ELSE IF isError(r) THEN r
    ELSE [ParseFail(r.furthest, r.expected)
            EXCEPT !.calls = r.calls, !.heap = r.heap]


\* parser.parse(input), called when the heap is `objects`.
parse(this, string, objects) ==
    outcome(action(and(this, eof),
                   [Context(string, SourceLocation(0, 1, 1))
                       EXCEPT !.heap = objects]))

\* The value tryParse returned.
Returned(value) ==
    [type |-> "Returned", value |-> value, calls |-> <<>>, heap |-> Unresolved]

\* string.join for a list of one-character strings: the characters in a row.
RECURSIVE Text(_)
Text(chars) == IF chars = <<>> THEN "" ELSE Head(chars) \o Text(Tail(chars))

\* expected.join(separator)
RECURSIVE join(_, _)
join(list, separator) ==
    IF list = <<>> THEN ""
    ELSE IF Len(list) = 1 THEN Text(list[1])
    ELSE Text(list[1]) \o separator \o join(Tail(list), separator)

\* Mutant: the message names the column as the line and the line as the
\* column.
valueOrThrowSwapped(r) ==
    IF r.type = "ParseOK"
    THEN [Returned(r.value) EXCEPT !.calls = r.calls, !.heap = r.heap]
    ELSE IF isError(r) THEN r
    ELSE [Error("parse error at line " \o ToString(r.location.column)
                \o " column " \o ToString(r.location.line)
                \o ": expected " \o join(r.expected, ", "))
            EXCEPT !.calls = r.calls, !.heap = r.heap]

\* The value of the result r of parse, or the error thrown for its failure.
valueOrThrow(r) ==
    IF r.type = "ParseOK"
    THEN [Returned(r.value) EXCEPT !.calls = r.calls, !.heap = r.heap]
    ELSE IF isError(r) THEN r
    ELSE [Error("parse error at line " \o ToString(r.location.line)
                \o " column " \o ToString(r.location.column)
                \o ": expected " \o join(r.expected, ", "))
            EXCEPT !.calls = r.calls, !.heap = r.heap]


\* parser.tryParse(input), called when the heap is `objects`.
tryParse(this, string, objects) ==
    valueOrThrow(parse(this, string, objects))

(***************************************************************************)
(* The program: a grammar is built (Construct), and the parser it yields   *)
(* is run on an input, by parse (Parse) or by a direct call of its action  *)
(* on a context inside the input (Run).                                    *)
(***************************************************************************)
A == str(<<"a">>)

B == str(<<"b">>)

AB == str(<<"a", "b">>)

Empty == str(<<>>)

Leaves == {A, B, AB, Empty}

Binary == {and(p, q) : p, q \in Leaves} \cup {or(p, q) : p, q \in Leaves}

Repeated == {many0(p) : p \in Leaves} \cup {many1(p) : p \in Leaves}

Composite ==
    { and(many0(A), B), and(many1(A), many1(B)), and(or(AB, A), B),
      or(and(A, B), and(A, A)), or(and(A, A), A), or(or(AB, B), A),
      and(and(A, B), A), many1(or(AB, A)), many0(and(A, B)),
      many1(many0(A)), or(many1(Empty), A), or(A, many1(Empty)),
      and(A, many0(Empty)), or(A, ok(Str(<<"x">>))),
      or(fail(<<<<"x">>>>), A), and(ok(Str(<<"x">>)), A),
      or(fail(<<<<"b">>, <<"a">>>>), fail(<<<<"b">>>>)),
      chain(A, [fn |-> "again"]), chain(or(AB, A), [fn |-> "again"]),
      map(and(A, B), [fn |-> "first"]), map(many0(A), [fn |-> "list"]),
      sepBy0(A, B), sepBy1(A, B), sepBy1(or(AB, A), B),
      wrap(A, B, B), trim(AB, many0(A)), desc(and(A, B), <<"x">>),
      trim(B, A), wrap(A, many0(B), AB),
      or(desc(AB, <<"x">>), A),
      sepBy1(B, A), sepBy1(or(A, B), Empty), sepBy0(or(A, B), Empty),
      desc(many0(A), <<"x">>), desc(or(AB, B), <<"b">>),
      and(A, fail(<<<<"b">>, <<"a">>>>)), and(A, fail(<<<<"a">>, <<"a">>>>)) }

Parsers == Leaves \cup Binary \cup Repeated \cup Composite

RECURSIVE Strings(_)
Strings(n) ==
    IF n = 0 THEN {<<>>}
    ELSE LET shorter == Strings(n - 1)
         IN  shorter \cup {Append(s, c) : s \in {t \in shorter : Len(t) = n - 1},
                                          c \in Alphabet}

Inputs == Strings(MaxLen)

\* The context a caller is in when it has consumed the first i units of s.
ContextAt(s, i) == Context(s, add(SourceLocation(0, 1, 1), slice(s, 0, i)))

NoParser == [kind |-> "none"]

NoResult == [type |-> "none"]

\* The arguments repeat and sepBy are called with: -1 .. MaxCount, 1.2, 3.4
\* and Infinity.
RangeArgs ==
    {Number(n) : n \in -1..MaxCount} \cup {Number(1) + 2, Number(3) + 4, Infinity}

NoRange == <<>>

NoRegExp == [source |-> <<>>, flags |-> <<"none">>]

\* Results the program produces, for merge to combine: failures and
\* successes at the offsets of a line of "a"s, with and without a failure
\* recorded so far.
Line == [i \in 1..MaxOffset |-> "a"]

At(i) == ContextAt(Line, i).location

Expectations ==
    {<<<<"a">>>>, <<<<"b">>>>, <<<<"a">>, <<"b">>>>, <<<<"b">>, <<"a">>>>,
     <<<<"a">>, <<"a">>>>}

Pool ==
    {context_fail(ContextAt(Line, 0), i, e) : i \in 0..MaxOffset, e \in Expectations}
    \cup {context_ok(ContextAt(Line, 0), i, Str(<<"a">>)) : i \in 0..MaxOffset}
    \cup {ActionOK(At(j), Str(<<"b">>), At(i), e) :
            j \in {0, MaxOffset}, i \in 0..MaxOffset, e \in Expectations}

Idle ==
    /\ parser = NoParser
    /\ range = NoRange
    /\ input = <<>>
    /\ start = 0
    /\ result = NoResult
    /\ previous = NoResult
    /\ computed = NoResult
    /\ merged = NoResult
    /\ merges = 0
    /\ heap = Unresolved
    /\ regex = NoRegExp
    /\ parses = 0

Init == Idle /\ pc = "new"

Construct ==
    /\ pc = "new"
    /\ \E p \in Parsers : parser' = p
    /\ pc' = "ready"
    /\ UNCHANGED <<regex, range, input, start, result, previous, computed, merged,
                   merges, heap, parses>>

\* A constructor call that threw returns no parser.
Threw(built) == "type" \in DOMAIN built

ConstructRepeat ==
    /\ pc = "new"
    /\ \E p \in {A, AB, Empty} : \E min, max \in RangeArgs :
          LET built == repeat(p, min, max)
          IN  /\ range' = <<min, max>>
              /\ IF Threw(built)
                 THEN pc' = "threw" /\ result' = built /\ UNCHANGED parser
                 ELSE pc' = "ready" /\ parser' = built /\ UNCHANGED result
    /\ UNCHANGED <<regex, input, start, previous, computed, merged, merges, heap,
                   parses>>

ConstructSepBy ==
    /\ pc = "new"
    /\ \E min, max \in RangeArgs :
          LET built == sepBy(A, B, min, max)
          IN  /\ range' = <<min, max>>
              /\ IF Threw(built)
                 THEN pc' = "threw" /\ result' = built /\ UNCHANGED parser
                 ELSE pc' = "ready" /\ parser' = built /\ UNCHANGED result
    /\ UNCHANGED <<regex, input, start, previous, computed, merged, merges, heap,
                   parses>>

Parse ==
    /\ pc = "ready"
    /\ \E s \in Inputs :
          /\ input' = s
          /\ start' = 0
          /\ result' = parse(parser, s, heap)
    /\ heap' = result'.heap
    /\ parses' = parses + 1
    /\ pc' = "parsed"
    /\ UNCHANGED <<regex, parser, range, previous, computed, merged, merges>>

Run ==
    /\ pc = "ready"
    /\ \E s \in Inputs : \E i \in 0..Len(s) :
          /\ input' = s
          /\ start' = i
          /\ result' = action(parser, resume(ContextAt(s, i), [heap |-> heap]))
    /\ heap' = result'.heap
    /\ pc' = "ran"
    /\ UNCHANGED <<regex, parser, range, previous, computed, merged, merges,
                   parses>>

TryParse ==
    /\ pc = "ready"
    /\ \E s \in Inputs :
          /\ input' = s
          /\ start' = 0
          /\ result' = tryParse(parser, s, heap)
    /\ heap' = result'.heap
    /\ parses' = parses + 1
    /\ pc' = "tried"
    /\ UNCHANGED <<regex, parser, range, previous, computed, merged, merges>>

Next ==
    Construct \/ ConstructRepeat \/ ConstructSepBy \/ Parse \/ Run \/ TryParse

Spec == Init /\ [][Next]_vars

(***************************************************************************)
(* The same program on text: inputs with line breaks and with an astral    *)
(* character (the surrogate pair "HI" "LO"), and parsers that take them.   *)
(***************************************************************************)
NL == str(<<"\n">>)

Smile == str(<<"HI", "LO">>)

High == str(<<"HI">>)

Low == str(<<"LO">>)

Word == match(RegExp(Letters, <<>>))

Unit == match(RegExp(AnyChar, <<>>))

TextParsers ==
    { A, NL, Smile, Word, Unit, str(<<"a", "\n">>), str(<<"\n", "a">>),
      many0(Unit), many0(or(A, NL)), many0(or(Smile, NL)),
      and(many0(A), NL), and(NL, Word), and(High, Low), and(Unit, Unit),
      and(many0(or(Unit, NL)), A),
      node(Word, "Id"), node(str(<<"a", "\n">>), "Id"), node(Smile, "Id"),
      node(many0(or(A, NL)), "Id"), node(many0(Unit), "Id"),
      and(many0(or(A, NL)), node(Word, "Id")),
      and(Unit, node(many0(or(Unit, NL)), "Id")),
      ok(Str(<<"x">>)), fail(<<<<"x">>>>), eof, location }

RECURSIVE Texts(_)
Texts(n) ==
    IF n = 0 THEN {<<>>}
    ELSE LET shorter == Texts(n - 1)
         IN  shorter \cup {Append(s, c) : s \in {t \in shorter : Len(t) = n - 1},
                                          c \in TextAlphabet}

TextInputs == Texts(MaxText)

ConstructText ==
    /\ pc = "new"
    /\ \E p \in TextParsers : parser' = p
    /\ pc' = "ready"
    /\ UNCHANGED <<regex, range, input, start, result, previous, computed, merged,
                   merges, heap, parses>>

ParseText ==
    /\ pc = "ready"
    /\ \E s \in TextInputs :
          /\ input' = s
          /\ start' = 0
          /\ result' = parse(parser, s, heap)
    /\ heap' = result'.heap
    /\ parses' = parses + 1
    /\ pc' = "parsed"
    /\ UNCHANGED <<regex, parser, range, previous, computed, merged, merges>>

\* The parser is called where a caller stands that took the units before
\* offset i one by one.
RunText ==
    /\ pc = "ready"
    /\ \E s \in TextInputs : \E i \in 0..Len(s) :
          /\ input' = s
          /\ start' = i
          /\ result' = action(parser, resume(ContextAt(s, i), [heap |-> heap]))
    /\ heap' = result'.heap
    /\ pc' = "ran"
    /\ UNCHANGED <<regex, parser, range, previous, computed, merged, merges,
                   parses>>

TryParseText ==
    /\ pc = "ready"
    /\ \E s \in TextInputs :
          /\ input' = s
          /\ start' = 0
          /\ result' = tryParse(parser, s, heap)
    /\ heap' = result'.heap
    /\ parses' = parses + 1
    /\ pc' = "tried"
    /\ UNCHANGED <<regex, parser, range, previous, computed, merged, merges>>

TextNext == ConstructText \/ ParseText \/ RunText \/ TryParseText

TextSpec == Init /\ [][TextNext]_vars

(***************************************************************************)
(* match on its own: a regular expression with some flags is handed to     *)
(* match (ConstructMatch), and the parser it returns, if it returns one,   *)
(* is called on a context (RunMatch).                                      *)
(***************************************************************************)
MatchAlphabet == TextAlphabet \cup {"A"}

Sources == {Letters, AnyChar, LineEnd}

\* regexp.flags lists the flags of the expression in this order.
AllFlags == <<"g", "i", "m", "s", "u", "y">>

FlagStrings ==
    {SelectSeq(AllFlags, LAMBDA f : f \in S) : S \in SUBSET Elems(AllFlags)}

RECURSIVE Subjects(_)
Subjects(n) ==
    IF n = 0 THEN {<<>>}
    ELSE LET shorter == Subjects(n - 1)
         IN  shorter \cup {Append(s, c) : s \in {t \in shorter : Len(t) = n - 1},
                                          c \in MatchAlphabet}

MatchInputs == Subjects(MaxMatch)

ConstructMatch ==
    /\ pc = "new"
    /\ \E source \in Sources : \E flags \in FlagStrings :
          LET built == match(RegExp(source, flags))
          IN  /\ regex' = RegExp(source, flags)
              /\ IF Threw(built)
                 THEN pc' = "threw" /\ result' = built /\ UNCHANGED parser
                 ELSE pc' = "ready" /\ parser' = built /\ UNCHANGED result
    /\ UNCHANGED <<range, input, start, previous, computed, merged, merges, heap,
                   parses>>

RunMatch ==
    /\ pc = "ready"
    /\ \E s \in MatchInputs : \E i \in 0..Len(s) :
          /\ input' = s
          /\ start' = i
          /\ result' = action(parser, resume(ContextAt(s, i), [heap |-> heap]))
    /\ heap' = result'.heap
    /\ pc' = "ran"
    /\ UNCHANGED <<regex, parser, range, previous, computed, merged, merges,
                   parses>>

MatchNext == ConstructMatch \/ RunMatch

MatchSpec == Init /\ [][MatchNext]_vars

(***************************************************************************)
(* A grammar with lazy parsers, parsed with again and again: every parse   *)
(* call picks one of the parsers of the grammar and an input.              *)
(*   letter = lazy(() => str("a"))                                         *)
(*   alias  = lazy(() => letter)                                           *)
(*   nested = lazy(() => a.and(nested).or(b))                              *)
(***************************************************************************)
Grammar ==
    { lazy("letter"), lazy("alias"), lazy("nested"),
      and(lazy("alias"), lazy("letter")), and(lazy("letter"), lazy("alias")),
      and(lazy("alias"), lazy("alias")), many0(lazy("alias")),
      many0(lazy("letter")), or(lazy("nested"), lazy("alias")),
      or(and(lazy("letter"), B), lazy("nested")), A, many0(B) }

ReuseInputs == Strings(MaxReuse)

ReuseInit ==
    /\ Idle
    /\ pc = "built"

ParseAgain ==
    /\ pc \in {"built", "parsed"}
    /\ parses < MaxParses
    /\ \E p \in Grammar : \E s \in ReuseInputs :
          /\ parser' = p
          /\ input' = s
          /\ result' = parse(p, s, heap)
    /\ heap' = result'.heap
    /\ parses' = parses + 1
    /\ pc' = "parsed"
    /\ UNCHANGED <<regex, range, start, previous, computed, merged, merges>>

ReuseNext == ParseAgain

ReuseSpec == ReuseInit /\ [][ReuseNext]_vars

(***************************************************************************)
(* A recursive grammar, of nested lists:                                   *)
(*   expr = lazy(() => item.or(list))                                      *)
(*   item = str("x")                                                       *)
(*   list = expr.sepBy0(str(" ")).wrap(str("("), str(")"))                 *)
(* parsed on every short input, on every list nested up to MaxLisp deep    *)
(* and on every such list cut short.  The evaluation of the grammar nests  *)
(* some 150 expressions for every level of the lists, which is what keeps  *)
(* the nesting this low.                                                   *)
(***************************************************************************)
LispAlphabet == {"x", "(", ")", " "}

RECURSIVE Lists(_)
Lists(n) ==
    IF n = 0 THEN {<<>>}
    ELSE LET shorter == Lists(n - 1)
         IN  shorter \cup {Append(s, c) : s \in {t \in shorter : Len(t) = n - 1},
                                          c \in LispAlphabet}

\* The well-formed inputs nested at most d deep, with lists of up to two
\* items.
RECURSIVE Nestings(_)
Nestings(d) ==
    IF d = 0 THEN {<<"x">>}
    ELSE LET inner == Nestings(d - 1)
         IN  {<<"x">>, <<"(", ")">>}
                \cup {<<"(">> \o a \o <<")">> : a \in inner}
                \cup {<<"(">> \o a \o <<" ">> \o b \o <<")">> : a, b \in inner}

\* Every input of S, whole or cut short.
Truncations(S) == UNION {{SubSeq(s, 1, n) : n \in 0..Len(s)} : s \in S}

\* "(x (x))", and "(x (x": the former cut short
TwoDeep == <<"(", "x", " ", "(", "x", ")", ")">>
CutShort == <<"(", "x", " ", "(", "x">>

LispInputs == Lists(MaxLisp + 1) \cup Truncations(Nestings(MaxLisp))

LispInit ==
    /\ Idle
    /\ pc = "built"

ParseExpr ==
    /\ pc = "built"
    /\ \E s \in LispInputs :
          /\ input' = s
          /\ result' = parse(lazy("expr"), s, heap)
    /\ parser' = lazy("expr")
    /\ heap' = result'.heap
    /\ parses' = parses + 1
    /\ pc' = "parsed"
    /\ UNCHANGED <<regex, range, start, previous, computed, merged, merges>>

LispNext == ParseExpr

LispSpec == LispInit /\ [][LispNext]_vars

(***************************************************************************)
(* merge on its own: a chain of merges, each combining the result known so *)
(* far with a result just computed.                                        *)
(***************************************************************************)
MergeInit ==
    /\ Idle
    /\ pc = "merging"

Merge ==
    /\ pc = "merging"
    /\ merges < MaxChain
    /\ \E a \in (IF merges = 0 THEN Pool ELSE {merged}) : \E b \in Pool :
          /\ previous' = a
          /\ computed' = b
          /\ merged' = ActionResult_merge(a, b)
    /\ merges' = merges + 1
    /\ UNCHANGED <<regex, parser, range, input, start, pc, result, heap, parses>>

MergeNext == Merge

MergeSpec == MergeInit /\ [][MergeNext]_vars

(***************************************************************************)
(* Reading the history of a result                                         *)
(***************************************************************************)
Max(S) == CHOOSE x \in S : \A y \in S : y <= x

\* The invocations a result's own parser made itself, in order.
Direct(r) ==
    LET sub == SelectSeq(r.calls, LAMBDA e : e.depth = 1)
    IN  [i \in 1..Len(sub) |-> [parser |-> sub[i].parser, index |-> sub[i].index]]

Invocation(p, i) == [parser |-> p, index |-> i]

\* The invocations of primitive parsers that failed while r was computed.
PrimitiveFailures(r) ==
    {e \in Elems(r.calls) :
        /\ e.parser.kind \in {"str", "eof", "fail"}
        /\ e.result.type = "ActionFail"}

UsesDesc(r) == \E e \in Elems(r.calls) : e.parser.kind = "desc"

\* What the parser under test does when called on the context of the run.
Alone == action(parser, ContextAt(input, start))

(***************************************************************************)
(* C1  Full consumption.  When the parser succeeds from offset 0 but stops *)
(* before the end of the input, parse returns a failure; parse returns a   *)
(* success only when the parser succeeds and stops exactly at the end of   *)
(* the input, and then carries the parser's value.                         *)
(***************************************************************************)
C1_FullConsumption ==
    pc = "parsed" =>
        /\ (isOK(Alone) /\ Alone.location.index < Len(input))
              => result.type = "ParseFail"
        /\ result.type = "ParseOK"
              => /\ isOK(Alone)
                 /\ Alone.location.index = Len(input)
                 /\ result.value = Alone.value

C1_Witness ==
    /\ pc = "parsed"
    /\ isOK(Alone)
    /\ Alone.location.index > 0
    /\ Alone.location.index < Len(input)
    /\ result.type = "ParseFail"

(***************************************************************************)
(* C2  Furthest failure.  When parse fails for a parser that uses no desc, *)
(* the reported offset is the largest offset at which a primitive parser   *)
(* failed during the parse (backtracked attempts and attempts followed by  *)
(* a success included), and the reported expected list holds exactly the   *)
(* expectations of the primitive failures at that offset.                  *)
(***************************************************************************)
C2_FurthestFailure ==
    (pc = "parsed" /\ result.type = "ParseFail" /\ ~UsesDesc(result)) =>
        LET failures == PrimitiveFailures(result)
            furthest == Max({e.result.furthest.index : e \in failures})
            deepest == {e \in failures : e.result.furthest.index = furthest}
        IN  /\ failures # {}
            /\ result.location.index = furthest
            /\ Elems(result.expected)
                  = UNION {Elems(e.result.expected) : e \in deepest}

\* A failure whose report comes from an attempt that was backtracked over.
C2_Witness ==
    /\ pc = "parsed"
    /\ result.type = "ParseFail"
    /\ ~UsesDesc(result)
    /\ parser.kind = "or"
    /\ result.location.index > 0
    /\ \E e \in PrimitiveFailures(result) :
          /\ e.parser.kind = "str"
          /\ e.result.furthest.index = result.location.index
          /\ e.result.expected # result.expected

NoDuplicates(list) ==
    \A i, j \in 1..Len(list) : list[i] = list[j] => i = j

(***************************************************************************)
(* C3  Merge.  previous.merge(computed) has the tag of `computed` (and,    *)
(* when that is a success, its value and location); its furthest and       *)
(* expected are those of `previous` when previous is strictly further,     *)
(* those of `computed` when computed is strictly further, and at equal     *)
(* offsets its expected is the union of both lists without duplicates.     *)
(***************************************************************************)
C3_Merge ==
    merges > 0 =>
        /\ merged.type = computed.type
        /\ isOK(computed)
              => /\ merged.value = computed.value
                 /\ merged.location = computed.location
        /\ previous.furthest.index > computed.furthest.index
              => /\ merged.furthest = previous.furthest
                 /\ merged.expected = previous.expected
        /\ computed.furthest.index > previous.furthest.index
              => /\ merged.furthest = computed.furthest
                 /\ merged.expected = computed.expected
        /\ computed.furthest.index = previous.furthest.index
              => /\ merged.furthest.index = previous.furthest.index
                 /\ NoDuplicates(merged.expected)
                 /\ Elems(merged.expected)
                       = Elems(previous.expected) \cup Elems(computed.expected)

\* Two failures at the same offset with different expectations are merged.
C3_Witness ==
    /\ merges > 0
    /\ computed.furthest.index = previous.furthest.index
    /\ Elems(previous.expected) \ Elems(computed.expected) # {}
    /\ Elems(computed.expected) \ Elems(previous.expected) # {}
    /\ Len(merged.expected) = 2

(***************************************************************************)
(* C4  Furthest never decreases.  The furthest offset of                   *)
(* previous.merge(computed) is the larger of the two furthest offsets, so  *)
(* along a chain of merges it never falls below what was known before.     *)
(***************************************************************************)
C4_FurthestMonotone ==
    merges > 0 =>
        /\ merged.furthest.index
              = Max({previous.furthest.index, computed.furthest.index})
        /\ merged.furthest.index >= previous.furthest.index

\* The second merge of a chain meets a result that is less far.
C4_Witness ==
    /\ merges = 2
    /\ previous.furthest.index > computed.furthest.index
    /\ computed.furthest.index >= 0
    /\ merged.furthest.index = previous.furthest.index

(***************************************************************************)
(* C5  Ordered choice.  p.or(q) called on a context: when p succeeds the   *)
(* outcome is p's result and q is not invoked; when p fails, q is invoked  *)
(* on the same context and the outcome is merge(p's failure, q's result),  *)
(* so that a success has q's value and location.                           *)
(***************************************************************************)
C5_OrderedChoice ==
    (pc = "ran" /\ parser.kind = "or") =>
        LET c == ContextAt(input, start)
            a == action(parser.this, c)
            b == action(parser.parserB, c)
        IN  /\ isOK(a)
                  => /\ Core(result) = Core(a)
                     /\ Direct(result) = <<Invocation(parser.this, start)>>
            /\ a.type = "ActionFail"
                  => /\ Direct(result) = <<Invocation(parser.this, start),
                                           Invocation(parser.parserB, start)>>
                     /\ ~isError(b) => Core(result) = Core(merge(b, a))
                     /\ isOK(b) => /\ isOK(result)
                                   /\ result.value = b.value
                                   /\ result.location = b.location

\* p fails after a longer look at the input than q needs, and q succeeds.
C5_Witness ==
    /\ pc = "ran"
    /\ parser = or(AB, A)
    /\ start > 0
    /\ isOK(result)
    /\ result.location.index = start + 1
    /\ Len(Direct(result)) = 2

(***************************************************************************)
(* C6  Sequence.  p.and(q) called on a context: when p fails the outcome   *)
(* is p's failure and q is not invoked; when p succeeds q is invoked once, *)
(* where p stopped; when both succeed the outcome is a success with the    *)
(* pair of both values and q's location; when q fails it is a failure.     *)
(***************************************************************************)
C6_Sequence ==
    (pc = "ran" /\ parser.kind = "and") =>
        LET c == ContextAt(input, start)
            a == action(parser.this, c)
            b == action(parser.parserB, withLocation(c, a.location))
        IN  /\ a.type = "ActionFail"
                  => /\ Core(result) = Core(a)
                     /\ Direct(result) = <<Invocation(parser.this, start)>>
            /\ isOK(a)
                  => /\ Direct(result)
                           = <<Invocation(parser.this, start),
                               Invocation(parser.parserB, a.location.index)>>
                     /\ isOK(b) => /\ isOK(result)
                                   /\ result.value = Arr(<<a.value, b.value>>)
                                   /\ result.location = b.location
                     /\ b.type = "ActionFail" => result.type = "ActionFail"

\* Both succeed, p having consumed input, away from the start of the input.
C6_Witness ==
    /\ pc = "ran"
    /\ parser.kind = "and"
    /\ start > 0
    /\ isOK(result)
    /\ result.location.index > start + 1
    /\ Len(Direct(result)) = 2
    /\ Direct(result)[2].index > start

(***************************************************************************)
(* C7  many1 needs one match.  When p fails on its first attempt,          *)
(* p.many1() fails: it does not succeed with an empty array.               *)
(***************************************************************************)
C7_Many1NeedsOne ==
    (pc = "ran" /\ parser.kind = "many1") =>
        (action(parser.this, ContextAt(input, start)).type = "ActionFail"
            => result.type = "ActionFail")

\* The invocations made directly by the k-th invocation of a history.
ChildrenOf(calls, k) ==
    {j \in (k + 1)..Len(calls) :
        /\ calls[j].depth = calls[k].depth + 1
        /\ \A m \in (k + 1)..j : calls[m].depth > calls[k].depth}

ZeroLength(e) ==
    e.result.type = "ActionOK" /\ e.result.location.index = e.index

\* The repetitions of a history one of whose iterations matched nothing.
Stuck(calls) ==
    {k \in 1..Len(calls) :
        /\ calls[k].parser.kind \in {"many1", "repeat"}
        /\ \E j \in ChildrenOf(calls, k) : ZeroLength(calls[j])}

(***************************************************************************)
(* C8  Zero-length guard.  Whenever an iteration of a repetition (many1,   *)
(* many0, repeat) succeeds without moving, the repetition throws the       *)
(* "infinite loop" error and so does the whole call: no success, no parse  *)
(* failure, and no enclosing or catches it.                                *)
(***************************************************************************)
C8_ZeroLengthGuard ==
    pc \in {"parsed", "ran"} =>
        \A k \in Stuck(result.calls) :
            /\ result.calls[k].result = Core(Error(InfiniteLoop))
            /\ Core(result) = Core(Error(InfiniteLoop))

\* The repetition is the first alternative of an or, under parse.
C8_Witness ==
    /\ pc = "parsed"
    /\ parser.kind = "or"
    /\ parser.this.kind = "many1"
    /\ Stuck(result.calls) # {}
    /\ result.type = "Error"

\* How often string occurs in a row in s from offset i, counted up to limit.
RECURSIVE Occurrences(_, _, _, _)
Occurrences(string, s, i, limit) ==
    IF limit = 0 \/ slice(s, i, i + Len(string)) # string THEN 0
    ELSE 1 + Occurrences(string, s, i + Len(string), limit - 1)

Copies(string, k) == Arr([i \in 1..k |-> Str(string)])

(***************************************************************************)
(* C9  Repetition counts.  For a literal p of at least one character,      *)
(* p.repeat(min, max) matches p as often as it occurs in a row, but at     *)
(* most max times; it succeeds with those values, in order, iff they are   *)
(* at least min, and fails otherwise.  Under parse it therefore succeeds   *)
(* iff the input is between min and max copies of p: "a".repeat(2, 3)      *)
(* fails on "a" and "aaaa" and succeeds on "aa" and "aaa".                 *)
(***************************************************************************)
C9_RepeatCounts ==
    (pc \in {"parsed", "ran"} /\ parser.kind = "repeat" /\ parser.this \in {A, AB}) =>
        LET string == parser.this.string
            k == Occurrences(string, input, start, parser.max \div 10)
            enough == Number(k) >= parser.min
        IN  /\ pc = "ran" /\ enough
                  => /\ isOK(result)
                     /\ result.value = Copies(string, k)
                     /\ result.location.index = start + k * Len(string)
            /\ pc = "ran" /\ ~enough => result.type = "ActionFail"
            /\ pc = "parsed" /\ enough /\ k * Len(string) = Len(input)
                  => Core(result) = Core(ParseOK(Copies(string, k)))
            /\ pc = "parsed" /\ ~(enough /\ k * Len(string) = Len(input))
                  => result.type = "ParseFail"

\* "a".repeat(2, 3) on "aaaa": three are taken and the fourth is left over.
C9_Witness ==
    /\ pc = "parsed"
    /\ parser = repeat(A, Number(2), Number(3))
    /\ input = <<"a", "a", "a", "a">>
    /\ result.type = "ParseFail"
    /\ result.location.index = 3

(***************************************************************************)
(* C10  Bad range.  repeat(min, max) and sepBy(separator, min, max) called *)
(* with min > max, a negative bound or a bound that is no integer throw    *)
(* "bad range" from the constructor: no parser exists, no parse call       *)
(* happens, and the error is no ParseFail.                                 *)
(***************************************************************************)
C10_BadRange ==
    range # NoRange =>
        LET min == range[1]
            max == range[2]
            bad == \/ min > max
                   \/ min < 0
                   \/ max < 0
                   \/ ~isInteger(min)
                   \/ ~isInteger(max)
        IN  bad => /\ pc = "threw"
                   /\ parser = NoParser
                   /\ Core(result) = Core(Error(BadRange))
                   /\ input = <<>>

\* A range whose only fault is a bound that is no integer.
C10_Witness ==
    /\ pc = "threw"
    /\ range # NoRange
    /\ 0 <= range[1]
    /\ range[1] <= range[2]
    /\ ~isInteger(range[2])
    /\ result.type = "Error"

\* The strings an item parser of the separated repetitions matches.
ItemStrings(p) ==
    IF p.kind = "str" THEN {p.string} ELSE {p.this.string, p.parserB.string}

\* The lists of 1 .. n strings of a set.
RECURSIVE ItemLists(_, _)
ItemLists(strings, n) ==
    IF n = 0 THEN {}
    ELSE LET shorter == ItemLists(strings, n - 1)
         IN  {<<s>> : s \in strings}
             \cup shorter
             \cup {Append(l, s) : l \in shorter, s \in strings}

\* items.join(separator)
RECURSIVE Join(_, _)
Join(items, separator) ==
    IF items = <<>> THEN <<>>
    ELSE IF Len(items) = 1 THEN items[1]
    ELSE items[1] \o separator \o Join(Tail(items), separator)

StrEach(items) == Arr([i \in 1..Len(items) |-> Str(items[i])])

\* The item and separator parsers of the separated repetitions explored.
Separated == {<<A, B>>, <<B, A>>, <<or(A, B), Empty>>}

(***************************************************************************)
(* C11  Separated repetition.  For an item p and a separator sep, the      *)
(* one-or-more form (p.sepBy1(sep), p.sepBy(sep, 1)) parsed against n >= 1 *)
(* items joined by the separator succeeds with exactly the n item values,  *)
(* in input order, without any separator value, and fails on the empty     *)
(* input; the zero-or-more form (p.sepBy0(sep), p.sepBy(sep)) succeeds     *)
(* with the empty array on the empty input.                                *)
(***************************************************************************)
C11_SeparatedRepetition ==
    pc = "parsed" =>
        \A c \in Separated :
            LET p == c[1]
                sep == c[2]
            IN  /\ parser \in {sepBy1(p, sep), sepBy(p, sep, Number(1), Infinity)}
                      => /\ \A items \in ItemLists(ItemStrings(p), MaxLen) :
                               input = Join(items, sep.string)
                                  => Core(result) = Core(ParseOK(StrEach(items)))
                         /\ input = <<>> => result.type = "ParseFail"
                /\ parser \in {sepBy0(p, sep), sepBy(p, sep, Number(0), Infinity)}
                      => (input = <<>> => Core(result) = Core(ParseOK(Arr(<<>>))))

\* "a" separated by "b": two items and the separator between them.
C11_Witness ==
    /\ pc = "parsed"
    /\ parser = sepBy1(A, B)
    /\ input = <<"a", "b", "a">>
    /\ Core(result) = Core(ParseOK(Arr(<<Str(<<"a">>), Str(<<"a">>)>>)))

Characters(chunk) ==
    Len(chunk)
    - Cardinality({i \in 1..(Len(chunk) - 1) :
                      IsHighSurrogate(chunk[i]) /\ IsLowSurrogate(chunk[i + 1])})

\* The position of an offset as the text of the input gives it: the line is
\* one more than the line breaks before the offset, the column one more than
\* the characters between the last of them and the offset.
TextPosition(string, offset) ==
    LET breaks == {i \in 1..offset : string[i] = "\n"}
        last == Max(breaks \cup {0})
    IN  SourceLocation(offset, 1 + Cardinality(breaks),
                       1 + Characters(SubSeq(string, last + 1, offset)))

IsNode(p) == p.kind = "chain" /\ p.fn.fn = "node"

InvocationsOf(calls, fn) ==
    {k \in 1..Len(calls) : calls[k].parser = lazy(fn)}

(***************************************************************************)
(* C14  lazy calls its callback at most once.  No callback is called when  *)
(* the grammar is built; the callback of L = lazy(fn) has been called once *)
(* L's action has been invoked; and no callback is ever called a second    *)
(* time, whatever parser it returns, in the same parse or a later one.     *)
(***************************************************************************)
C14_LazyOnce ==
    /\ pc = "built" => \A fn \in Callbacks : heap.called[fn] = 0
    /\ pc = "parsed"
          => \A fn \in Callbacks :
                InvocationsOf(result.calls, fn) # {} => heap.called[fn] >= 1
    /\ \A fn \in Callbacks : heap.called[fn] <= 1

(***************************************************************************)
(* C15  Idempotent reuse.  Whatever parse calls were made on the grammar   *)
(* before, parser.parse(input) returns what it returns on the grammar as   *)
(* built (tag, value, or failure location and expected list): two calls    *)
(* with the same parser and input return equal results.                    *)
(***************************************************************************)
C15_IdempotentReuse ==
    pc = "parsed" =>
        Core(result) = Core(parse(parser, input, Unresolved))

\* A recursive lazy parser is parsed with after an earlier parse call has
\* resolved it.
C15_Witness ==
    /\ pc = "parsed"
    /\ parses > 1
    /\ parser = or(lazy("nested"), lazy("alias"))
    /\ result.calls[1].heap.called["nested"] = 1
    /\ result.calls[1].heap.called["alias"] = 0
    /\ result.type = "ParseOK"
    /\ Len(input) = MaxReuse

(***************************************************************************)
(* C16  Failure is a value.  Unless an iteration of a repetition matched   *)
(* nothing, parse never throws: on an input the parser does not match it   *)
(* returns a ParseFail with a location and an expected list.  tryParse     *)
(* throws exactly on the inputs for which parse returns a ParseFail.       *)
(***************************************************************************)
C16_FailureIsValue ==
    /\ (pc = "parsed" /\ Stuck(result.calls) = {})
          => /\ result.type \in {"ParseOK", "ParseFail"}
             /\ result.type = "ParseFail"
                   => DOMAIN Core(result) = {"type", "location", "expected"}
    /\ (pc = "tried" /\ Stuck(result.calls) = {})
          => (result.type = "Error"
                <=> parse(parser, input, Unresolved).type = "ParseFail")

\* A repetition whose iterations all moved fails on its input.
C16_Witness ==
    /\ pc = "parsed"
    /\ parser.kind = "many1"
    /\ Stuck(result.calls) = {}
    /\ result.type = "ParseFail"
    /\ result.location.index > 1

\* A list of strings in the order of Array.prototype.sort.
Sorted(list) ==
    \A i, j \in 1..Len(list) : i < j => ~StringLess(list[j], list[i])

(***************************************************************************)
(* C17  Public failure shape.  Whenever parse returns a failure, its       *)
(* expected list is sorted and holds no string twice.                      *)
(***************************************************************************)
C17_SortedExpected ==
    (pc = "parsed" /\ result.type = "ParseFail") =>
        /\ Sorted(result.expected)
        /\ NoDuplicates(result.expected)

(***************************************************************************)
(* C18  tryParse.  tryParse(input) returns the value of parse(input) when  *)
(* parse succeeds; when parse fails at line L, column C with the expected  *)
(* list E1, E2, ... it throws an error with the message                    *)
(* "parse error at line L column C: expected E1, E2, ...".                 *)
(***************************************************************************)
C18_TryParse ==
    pc = "tried" =>
        LET r == parse(parser, input, Unresolved)
        IN  /\ r.type = "ParseOK" => Core(result) = Core(Returned(r.value))
            /\ r.type = "ParseFail"
                  => /\ result.type = "Error"
                     /\ result.message
                           = "parse error at line "
                             \o ToString(r.location.line)
                             \o " column "
                             \o ToString(r.location.column)
                             \o ": expected "
                             \o join(r.expected, ", ")

\* A failure on the second line, with more than one expectation.
C18_Witness ==
    /\ pc = "tried"
    /\ result.type = "Error"
    /\ parse(parser, input, Unresolved).location.line = 2
    /\ parse(parser, input, Unresolved).location.column = 1
    /\ Len(parse(parser, input, Unresolved).expected) > 1

\* The locations a call produced: where its invocations stopped and the
\* furthest failures they recorded (not the "no failure" mark of ok).
Locations(r) ==
    {e.result.location : e \in {x \in Elems(r.calls) : x.result.type = "ActionOK"}}
    \cup {e.result.furthest :
            e \in {x \in Elems(r.calls) :
                      /\ x.result.type \in {"ActionOK", "ActionFail"}
                      /\ x.result.furthest.index >= 0}}
    \cup (IF r.type = "ParseFail" THEN {r.location} ELSE {})

(***************************************************************************)
(* C19  Position tracking.  A location advanced across a chunk counts a    *)
(* line, with the column back at 1, for every "\n" and a column for every  *)
(* other character, and its index grows by the units of each character.    *)
(* So every location produced during a parse has line = 1 + the number of  *)
(* "\n" before its index and column = 1 + the number of characters between *)
(* the last "\n" before its index and its index, both at least 1.          *)
(***************************************************************************)
C19_PositionTracking ==
    /\ pc = "ran"
          => add(SourceLocation(0, 1, 1), slice(input, 0, start))
                = TextPosition(input, start)
    /\ pc = "parsed"
          => \A l \in Locations(result) :
                /\ l = TextPosition(input, l.index)
                /\ l.line >= 1
                /\ l.column >= 1

(***************************************************************************)
(* C20  Literal matcher.  str(s) called at offset i succeeds iff the input *)
(* holds s, unit by unit, from offset i; then its value is s and it stops  *)
(* at i + length(s); otherwise it fails with furthest offset i and the     *)
(* expected list [s].  So str("ab").parse("ab") succeeds with "ab", and    *)
(* .parse("a") and .parse("abc") fail.                                     *)
(***************************************************************************)
C20_LiteralExact ==
    /\ (pc = "ran" /\ parser.kind = "str")
          => LET s == parser.string
                 there == /\ start + Len(s) <= Len(input)
                          /\ \A k \in 1..Len(s) : input[start + k] = s[k]
             IN  /\ isOK(result) <=> there
                 /\ isOK(result)
                       => /\ result.value = Str(s)
                          /\ result.location.index = start + Len(s)
                 /\ ~isOK(result)
                       => /\ result.type = "ActionFail"
                          /\ result.furthest.index = start
                          /\ result.expected = <<s>>
    /\ (pc = "parsed" /\ parser = AB)
          => /\ input = <<"a", "b">> => Core(result) = Core(ParseOK(Str(<<"a", "b">>)))
             /\ input = <<"a">> => result.type = "ParseFail"
             /\ input = <<"a", "b", "a">> => result.type = "ParseFail"

\* The input ends inside the string, away from the start of the input.
C20_Witness ==
    /\ pc = "ran"
    /\ parser = AB
    /\ start > 0
    /\ start + 1 = Len(input)
    /\ input[start + 1] = "a"
    /\ result.type = "ActionFail"
    /\ result.furthest.index = start

(***************************************************************************)
(* C21  Regex flag validation.  match(regexp) throws when it is called,    *)
(* before any parser is invoked, when regexp carries a flag other than i,  *)
(* s, m, u; it returns a parser, and throws nothing, when every flag of    *)
(* regexp is one of i, s, m, u.                                            *)
(***************************************************************************)
C21_FlagValidation ==
    regex # NoRegExp =>
        /\ pc = "threw" <=> ~(Elems(regex.flags) \subseteq {"i", "s", "m", "u"})
        /\ pc = "threw" => /\ isError(result)
                           /\ result.message = OnlyImsu
                           /\ result.calls = <<>>
                           /\ parser = NoParser
                           /\ parses = 0
        /\ pc = "ready" => /\ result = NoResult
                           /\ parser.kind = "match"
                           /\ parser.regexp = regex

\* match has thrown for a regexp with an accepted and a refused flag.
C21_Witness ==
    /\ pc = "threw"
    /\ regex.flags = <<"i", "y">>
    /\ isError(result)

(***************************************************************************)
(* C28  Accepted regex flags take effect.  The regular expression the      *)
(* parser of match applies carries every flag of the regexp handed to      *)
(* match, and the sticky flag: the parser matches what the regexp with its *)
(* own flags matches at the current offset, so that /./s takes a line      *)
(* break and /./u takes a whole surrogate pair.                            *)
(***************************************************************************)
C28_FlagsTakeEffect ==
    (pc = "ran" /\ parser.kind = "match") =>
        LET length == stickyMatch(regex.source, regex.flags \o <<"y">>,
                                  input, start)
        IN  /\ Elems(stickyFlags(regex)) = Elems(regex.flags) \cup {"y"}
            /\ IF length >= 0
               THEN /\ isOK(result)
                    /\ result.location.index = start + length
                    /\ result.value = Str(slice(input, start, start + length))
               ELSE result.type = "ActionFail"

(***************************************************************************)
(* C22  chain.  p.chain(f) called on a context: when p does not succeed    *)
(* the outcome is p's outcome and nothing else is invoked; when p succeeds *)
(* the parser f returns for p's value is invoked exactly once, where p     *)
(* stopped, and the outcome is p's result merged with that parser's        *)
(* result, which has the type, the value and the location of the latter.   *)
(***************************************************************************)
C22_Chain ==
    (pc = "ran" /\ parser.kind = "chain") =>
        LET c == ContextAt(input, start)
            a == action(parser.this, c)
            parserB == call(parser.fn, a.value)
            b == action(parserB, withLocation(c, a.location))
        IN  /\ ~isOK(a)
                  => /\ Core(result) = Core(a)
                     /\ Direct(result) = <<Invocation(parser.this, start)>>
            /\ isOK(a)
                  => /\ Direct(result)
                           = <<Invocation(parser.this, start),
                               Invocation(parserB, a.location.index)>>
                     /\ Core(result) = Core(ActionResult_merge(a, b))
                     /\ result.type = b.type
                     /\ isOK(b) => /\ result.value = b.value
                                   /\ result.location = b.location

\* p consumed input away from the start of the input, and the parser the
\* callback returned consumed more.
C22_Witness ==
    /\ pc = "ran"
    /\ parser.kind = "chain"
    /\ start > 0
    /\ isOK(result)
    /\ Len(Direct(result)) = 2
    /\ Direct(result)[2].index > start
    /\ result.location.index > Direct(result)[2].index

\* The wrap and trim parsers of the run: <<p, before, after>> and <<p, ws>>.
Wrapped ==
    {<<A, B, B>>, <<A, many0(B), AB>>, <<AB, many0(A), many0(A)>>, <<B, A, A>>}

Trimmed == {<<AB, many0(A)>>, <<B, A>>}

(***************************************************************************)
(* C23  wrap and trim.  p.wrap(before, after) succeeds exactly when        *)
(* before, p and after succeed one after the other, each starting where    *)
(* the one before it stopped; its value is then p's value and its location *)
(* the one after stopped at.  p.trim(ws) gives the result of               *)
(* p.wrap(ws, ws).                                                         *)
(***************************************************************************)
C23_WrapTrim ==
    pc = "ran" =>
        LET c == ContextAt(input, start)
        IN  /\ \A w \in Wrapped :
                  parser = wrap(w[1], w[2], w[3]) =>
                      LET b == action(w[2], c)
                          p == action(w[1], withLocation(c, b.location))
                          a == action(w[3], withLocation(c, p.location))
                          all == isOK(b) /\ isOK(p) /\ isOK(a)
                      IN  /\ isOK(result) <=> all
                          /\ all => /\ result.value = p.value
                                    /\ result.location = a.location
            /\ \A t \in Trimmed :
                  parser = trim(t[1], t[2]) =>
                      Core(result) = Core(action(wrap(t[1], t[2], t[2]), c))

\* A wrapped parser succeeded away from the start of the input, and the
\* three parsers all consumed input.
C23_Witness ==
    /\ pc = "ran"
    /\ parser = wrap(A, B, B)
    /\ start > 0
    /\ isOK(result)
    /\ result.location.index = start + 3
    /\ result.value = Str(<<"a">>)

\* Parsers that consume at least one unit whenever they succeed.
Consuming == {A, B, AB, and(A, B)}

\* The values of the longest run of consecutive matches of p from context c.
RECURSIVE Collected(_, _)
Collected(p, c) ==
    LET r == action(p, c)
    IN  IF isOK(r)
        THEN <<r.value>> \o Collected(p, withLocation(c, r.location))
        ELSE <<>>

\* The context that run ends in: where p is tried and does not match.
RECURSIVE Stopped(_, _)
Stopped(p, c) ==
    LET r == action(p, c)
    IN  IF isOK(r) THEN Stopped(p, withLocation(c, r.location)) ELSE c

(***************************************************************************)
(* C24  many0 collects greedily and keeps the stopping failure.  For a     *)
(* parser p that consumes input whenever it matches, p.many0() succeeds;   *)
(* its value is the values of the longest run of consecutive matches of p, *)
(* its location is where that run ends, and its furthest offset is at      *)
(* least the furthest offset of the failed attempt that ended the run,     *)
(* whose expectations it holds when the two offsets are equal.             *)
(***************************************************************************)
C24_Many0Greedy ==
    \A p \in Consuming :
        (pc = "ran" /\ parser = many0(p)) =>
            LET c == ContextAt(input, start)
                end == Stopped(p, c)
                last == action(p, end)
            IN  /\ isOK(result)
                /\ result.value = Arr(Collected(p, c))
                /\ result.location = end.location
                /\ last.type = "ActionFail"
                /\ result.furthest.index >= last.furthest.index
                /\ result.furthest.index = last.furthest.index
                      => Elems(last.expected) \subseteq Elems(result.expected)

\* A match away from the start of the input, and the attempt that ended the
\* run failed beyond the place the run ended in.
C24_Witness ==
    /\ pc = "ran"
    /\ parser = many0(and(A, B))
    /\ start > 0
    /\ isOK(result)
    /\ Len(result.value.items) = 1
    /\ result.furthest.index > result.location.index

\* The strings of the grammar of nested lists: an item, or a list of
\* expressions, one space between two of them, in parentheses.
RECURSIVE IsExpr(_)

RECURSIVE IsItems(_)
IsItems(s) ==
    \/ IsExpr(s)
    \/ \E k \in 2..(Len(s) - 1) :
          /\ s[k] = " "
          /\ IsExpr(SubSeq(s, 1, k - 1))
          /\ IsItems(SubSeq(s, k + 1, Len(s)))

IsExpr(s) ==
    \/ s = <<"x">>
    \/ /\ Len(s) >= 2
       /\ s[1] = "("
       /\ s[Len(s)] = ")"
       /\ Len(s) = 2 \/ IsItems(SubSeq(s, 2, Len(s) - 1))

\* The string a value of the grammar was parsed from.
RECURSIVE Show(_)

RECURSIVE ShowItems(_)
ShowItems(items) ==
    IF items = <<>> THEN <<>>
    ELSE IF Len(items) = 1 THEN Show(items[1])
    ELSE Show(items[1]) \o <<" ">> \o ShowItems(Tail(items))

Show(value) ==
    IF value.t = "string" THEN value.chars
    ELSE <<"(">> \o ShowItems(value.items) \o <<")">>

(***************************************************************************)
(* C25  Recursive grammar termination.  parse with the lazily defined      *)
(* grammar of nested lists returns on every input: a success on a string   *)
(* of the grammar, the value nested as the parentheses of the input are,   *)
(* and otherwise a ParseFail, never a thrown error; so a success on        *)
(* "(x (x))" and a ParseFail on "(x (x".                                   *)
(***************************************************************************)
C25_RecursiveGrammar ==
    pc = "parsed" =>
        /\ result.type \in {"ParseOK", "ParseFail"}
        /\ result.type = "ParseOK" <=> IsExpr(input)
        /\ result.type = "ParseOK" => Show(result.value) = input
        /\ input = TwoDeep => result.type = "ParseOK"
        /\ input = CutShort => result.type = "ParseFail"

\* The nested list was parsed: the value holds the inner list as its second
\* item.
C25_Witness ==
    /\ pc = "parsed"
    /\ input = TwoDeep
    /\ result.type = "ParseOK"
    /\ result.value = Arr(<<Str(<<"x">>), Arr(<<Str(<<"x">>)>>)>>)

(***************************************************************************)
(* C26  Empty advance is identity.  For every context c, whatever line and *)
(* column its location holds, c.move(c.location.index) returns the         *)
(* location object of c itself; so the results that ok, fail, eof and      *)
(* location build at the current offset carry the location of the context, *)
(* and a success ends where it started.                                    *)
(***************************************************************************)
C26_EmptyAdvance ==
    (pc = "ran" /\ parser.kind \in {"ok", "fail", "eof", "location"})
        => LET c == ContextAt(input, start)
           IN  /\ \A line, column \in 1..(MaxText + 1) :
                     LET d == Context(input, SourceLocation(start, line, column))
                     IN  /\ moveReturns(d, d.location.index) = "this.location"
                         /\ move(d, d.location.index) = d.location
                         /\ context_ok(d, start, Str(<<>>)).location = d.location
                         /\ context_fail(d, start, <<>>).furthest = d.location
               /\ isOK(result) => result.location = c.location
               /\ ~isOK(result) => /\ result.type = "ActionFail"
                                   /\ result.furthest = c.location
               /\ parser.kind = "ok" => isOK(result) /\ result.value = parser.value
               /\ parser.kind = "fail" => ~isOK(result)
                                            /\ result.expected = parser.expected
               /\ parser.kind = "eof" => (isOK(result) <=> start = Len(input))
               /\ parser.kind = "location"
                     => /\ isOK(result)
                        /\ result.value.location = c.location

\* location is called on the second line of the input, after an astral
\* character.
C26_Witness ==
    /\ pc = "ran"
    /\ parser = location
    /\ start = 3
    /\ SubSeq(input, 1, 3) = <<"HI", "LO", "\n">>
    /\ result.value.location = SourceLocation(3, 2, 1)

(***************************************************************************)
(* breadnbutter.ts: the API of free functions.  Its names that the module  *)
(* already uses for bread-n-butter.ts carry the prefix bnb_.  A Parser is  *)
(* the record of the function that built it and of its arguments, a        *)
(* Context the record of its input and index.                              *)
(***************************************************************************)
bnb_Context(string, index) == [input |-> string, index |-> index]

consume(this, amount) == bnb_Context(this.input, this.index + amount)

bnb_ok(value, context) == [type |-> "bnb.OK", value |-> value, context |-> context]

bnb_fail(message, context) ==
    [type |-> "bnb.Fail", message |-> message, context |-> context]

of(value) == [kind |-> "of", value |-> value]

andThen(parser1, parser2) ==
    [kind |-> "andThen", parser1 |-> parser1, parser2 |-> parser2]

matchString(string) == [kind |-> "matchString", string |-> string]

matchEOF == [kind |-> "matchEOF"]

EndOfFile == <<"e", "n", "d", " ", "o", "f", " ", "f", "i", "l", "e">>

\* The closure of matchString.
matchStringAction(this, context) ==
    LET chunk == slice(context.input, context.index,
                       context.index + Len(this.string))
    IN  IF chunk = this.string
        THEN bnb_ok(Str(this.string), consume(context, 1))
        ELSE bnb_fail(this.string, context)

\* The closure of matchEOF.
matchEOFAction(this, context) ==
    IF context.index = Len(context.input)
    THEN bnb_ok(Str(EndOfFile), context)
    ELSE bnb_fail(EndOfFile, context)

\* parser.action(context), for the parsers of breadnbutter.ts.
RECURSIVE bnb_action(_, _)
bnb_action(this, context) ==
    CASE this.kind = "of" -> bnb_ok(this.value, context)
      [] this.kind = "matchString" -> matchStringAction(this, context)
      [] this.kind = "matchEOF" -> matchEOFAction(this, context)
      [] this.kind = "andThen" ->
            LET result1 == bnb_action(this.parser1, context)
            IN  IF result1.type = "bnb.Fail" THEN result1
                ELSE LET result2 == bnb_action(this.parser2, result1.context)
                     IN  IF result2.type = "bnb.Fail" THEN result2
                         ELSE bnb_ok(Arr(<<result1.value, result2.value>>),
                                     result2.context)

\* parser.parse(input)
bnb_parse(this, string) ==
    LET r == bnb_action(andThen(this, matchEOF), bnb_Context(string, 0))
    IN  IF r.type = "bnb.OK" THEN bnb_ok(r.value.items[1], r.context) ELSE r

(***************************************************************************)
(* The free functions on their own: a parser is built (ConstructFree), and *)
(* parse is called on it (ParseFree) or its action is (RunFree).           *)
(***************************************************************************)
Literals == Strings(MaxFree)

FreeParsers ==
    {matchString(s) : s \in Literals}
        \cup {andThen(matchString(s), q) :
                s \in Literals, q \in {matchString(<<"a">>), matchEOF, of(Str(<<"x">>))}}
        \cup {matchEOF, of(Str(<<"x">>))}

ConstructFree ==
    /\ pc = "new"
    /\ \E p \in FreeParsers : parser' = p
    /\ pc' = "ready"
    /\ UNCHANGED <<regex, range, input, start, result, previous, computed, merged,
                   merges, heap, parses>>

ParseFree ==
    /\ pc = "ready"
    /\ \E s \in Strings(MaxFree + 1) :
          /\ input' = s
          /\ start' = 0
          /\ result' = bnb_parse(parser, s)
    /\ parses' = parses + 1
    /\ pc' = "parsed"
    /\ UNCHANGED <<regex, parser, range, previous, computed, merged, merges, heap>>

RunFree ==
    /\ pc = "ready"
    /\ \E s \in Strings(MaxFree + 1) : \E i \in 0..Len(s) :
          /\ input' = s
          /\ start' = i
          /\ result' = bnb_action(parser, bnb_Context(s, i))
    /\ pc' = "ran"
    /\ UNCHANGED <<regex, parser, range, previous, computed, merged, merges, heap,
                   parses>>

FreeNext == ConstructFree \/ ParseFree \/ RunFree

FreeSpec == Init /\ [][FreeNext]_vars

(***************************************************************************)
(* C27  matchString of the free functions.  A success of matchString(s)    *)
(* leaves the context at the index it started from plus the length of s;   *)
(* so parse(matchString(s), s) succeeds with the value s for every         *)
(* non-empty s, and andThen(matchString(s), q) returns what q returns at   *)
(* that index, paired with s when q succeeds.                              *)
(***************************************************************************)
C27_MatchStringAdvances ==
    /\ (pc = "ran" /\ parser.kind = "matchString" /\ result.type = "bnb.OK")
          => result.context.index = start + Len(parser.string)
    /\ (pc = "parsed" /\ parser.kind = "matchString" /\ input = parser.string
            /\ input # <<>>)
          => /\ result.type = "bnb.OK"
             /\ result.value = Str(input)
    /\ (pc = "ran" /\ parser.kind = "andThen"
            /\ parser.parser1.kind = "matchString"
            /\ bnb_action(parser.parser1, bnb_Context(input, start)).type = "bnb.OK")
          => LET s == parser.parser1.string
                 r == bnb_action(parser.parser2,
                                 bnb_Context(input, start + Len(s)))
             IN  IF r.type = "bnb.Fail" THEN result = r
                 ELSE result = bnb_ok(Arr(<<Str(s), r.value>>), r.context)

(***************************************************************************)
(* Lists of "a" separated by ",": the parsers of the tests "sepBy 0+" and  *)
(* "sepBy 1+", built (ConstructList) and then handed an input (ParseList)  *)
(* or called at an offset of one (RunList).                                *)
(***************************************************************************)
Comma == str(<<",">>)

ListAlphabet == {"a", ",", "b"}

RECURSIVE ListStrings(_)
ListStrings(n) ==
    IF n = 0 THEN {<<>>}
    ELSE LET shorter == ListStrings(n - 1)
         IN  shorter \cup {Append(s, c) : s \in {t \in shorter : Len(t) = n - 1},
                                          c \in ListAlphabet}

ListInputs == ListStrings(MaxList)

ListParsers == {sepBy0(A, Comma), sepBy1(A, Comma)}

ConstructList ==
    /\ pc = "new"
    /\ \E p \in ListParsers : parser' = p
    /\ pc' = "ready"
    /\ UNCHANGED <<regex, range, input, start, result, previous, computed, merged,
                   merges, heap, parses>>

ParseList ==
    /\ pc = "ready"
    /\ \E s \in ListInputs :
          /\ input' = s
          /\ start' = 0
          /\ result' = parse(parser, s, heap)
    /\ heap' = result'.heap
    /\ parses' = parses + 1
    /\ pc' = "parsed"
    /\ UNCHANGED <<regex, parser, range, previous, computed, merged, merges>>

RunList ==
    /\ pc = "ready"
    /\ \E s \in ListInputs : \E i \in 0..Len(s) :
          /\ input' = s
          /\ start' = i
          /\ result' = action(parser, resume(ContextAt(s, i), [heap |-> heap]))
    /\ heap' = result'.heap
    /\ pc' = "ran"
    /\ UNCHANGED <<regex, parser, range, previous, computed, merged, merges,
                   parses>>

ListNext == ConstructList \/ ParseList \/ RunList

ListSpec == Init /\ [][ListNext]_vars

\* The pairs of a "," and an "a" that the string holds from offset j on.
RECURSIVE More(_, _)
More(s, j) ==
    IF j + 2 <= Len(s) /\ s[j + 1] = "," /\ s[j + 2] = "a"
    THEN 1 + More(s, j + 2)
    ELSE 0

\* The items of the list that the string holds at offset i.
Items(s, i) ==
    IF i < Len(s) /\ s[i + 1] = "a" THEN 1 + More(s, i + 1) ELSE 0

(***************************************************************************)
(* C29  A separator not followed by an item is not consumed.  The list of  *)
(* "a" separated by "," called where k >= 1 items stand succeeds with the  *)
(* k items and ends after the last of them.  When a "," follows there, the *)
(* item that failed after it is the furthest failure: one past the ",",    *)
(* expecting "a"; otherwise the separator that failed is.  So parse fails  *)
(* on "a,a,b" and on "a,a," at offset 4, expecting "a".                    *)
(***************************************************************************)
C29_DanglingSeparator ==
    /\ (pc = "ran" /\ parser \in ListParsers /\ Items(input, start) >= 1)
          => LET k == Items(input, start)
                 end == start + 2 * k - 1
                 dangling == end < Len(input) /\ input[end + 1] = ","
             IN  /\ isOK(result)
                 /\ result.value = Arr([n \in 1..k |-> Str(<<"a">>)])
                 /\ result.location.index = end
                 /\ dangling => /\ result.furthest.index = end + 1
                                /\ result.expected = <<<<"a">>>>
                 /\ ~dangling => /\ result.furthest.index = end
                                 /\ result.expected = <<<<",">>>>
    /\ (pc = "parsed" /\ parser \in ListParsers
            /\ input \in {<<"a", ",", "a", ",", "b">>, <<"a", ",", "a", ",">>})
          => /\ result.type = "ParseFail"
             /\ result.location.index = 4
             /\ result.expected = <<<<"a">>>>

\* "a,a,b" from its start: two items, the list ends before the second ",".
C29_Witness ==
    /\ pc = "ran"
    /\ parser = sepBy1(A, Comma)
    /\ input = <<"a", ",", "a", ",", "b">>
    /\ start = 0
    /\ isOK(result)
    /\ result.location.index = 3
    /\ result.furthest.index = 4

\* The invocations that the history holds at the given depth, in order.
AtDepth(calls, depth) ==
    SelectSeq(calls, LAMBDA event : event.depth = depth)

\* The invocations of p that one invocation of p.many1() made, when the
\* many1 itself was invoked at the given depth of the history.
Iterations(calls, depth) == AtDepth(calls, depth + 1)

\* What C30 says of the loop of p.many1(), invoked at the given depth.
Terminates(p, calls, depth, r) ==
    LET made == Iterations(calls, depth)
    IN  /\ \/ r.type \in {"ActionOK", "ActionFail"}
           \/ r.type = "Error" /\ r.message = InfiniteLoop
        /\ Len(made) >= 1
        /\ Len(made) <= Len(input) - start + 1
        /\ \A k \in 1..Len(made) : made[k].parser = p
        /\ made[1].index = start
        /\ \A k \in 2..Len(made) : made[k].index > made[k - 1].index

(***************************************************************************)
(* C30  Repetition loops terminate.  An invocation of p.many1() or of      *)
(* p.many0() at offset i of an input of n units invokes p at most          *)
(* n - i + 1 times, each time at a greater offset than the time before,    *)
(* and then returns a result or throws the infinite-loop error.            *)
(***************************************************************************)
C30_LoopsTerminate ==
    pc = "ran" =>
        /\ parser.kind = "many1"
              => Terminates(parser.this, result.calls, 0, result)
        /\ (parser.kind = "or" /\ parser.this.kind = "many1"
                /\ parser = many0(parser.this.this))
              => Terminates(parser.this.this, result.calls, 1, result)

\* "a" is taken four times from "aaaa" and fails at the end of the input:
\* five invocations, as many as the claim allows.
C30_Witness ==
    /\ pc = "ran"
    /\ parser = many1(A)
    /\ input = <<"a", "a", "a", "a">>
    /\ start = 0
    /\ isOK(result)
    /\ Len(Iterations(result.calls, 0)) = 5

====
